---- MODULE Spec2Model ----
(***************************************************************************)
(* Face-Attendance: the capture session (app/register.py), the training    *)
(* run (app/train.py) and the recognition session with its attendance      *)
(* flush (app/attendance.py), as state machines over the files they read   *)
(* and write.                                                              *)
(*                                                                         *)
(* Names are sequences of tokens: a word ("A", "Unknown") or one blank     *)
(* (" "); a normalised name has "_" where the raw name had an inner blank. *)
(* The clock counts ticks; TicksPerSec ticks make one second (the clock is *)
(* finer than the HH:MM:SS the program writes) and SecsPerDay seconds one  *)
(* calendar day.                                                           *)
(***************************************************************************)
EXTENDS Integers, Sequences, FiniteSets

VARIABLES
    now,            \* the wall clock, in ticks
    attFiles,       \* ATTENDANCE_DIR: day -> attendance_<day>.csv (exists, lines)
    encodings,      \* ENCODINGS_DIR: face_model.yml and name_map.pickle
    dataset,        \* DATASET_DIR: folder name -> (exists, files: index -> None or Some(image))
    camHolders,     \* the operations that hold an open cv2.VideoCapture
    \* recognize_and_mark
    rpc,            \* position of the recognition session
    face_recognizer,\* the classifier loaded at session start: the labels it predicts
    id_to_name,     \* the mapping loaded at session start
    attendance,     \* the session list of marked names
    pending,        \* faces of the current frame still to classify
    recFrames,      \* frames read in this session
    recSessions,    \* sessions started
    last,           \* history: the face classified last (label, confidence, list before)
    repeats,        \* history: names accepted again after they were in the list
    seenAt,         \* history: clock at which attendance[i] was appended
    flushLog,       \* history: the last flush (day, clock at the timestamp read, files before)
    recorded,       \* history: day -> name -> number of flushes that held the name
    exitBy,         \* history: what ended the frame loop ("none" while it runs)
    loaded,         \* history: the training runs that wrote the two artifacts loaded last
    \* register_face
    cpc,            \* position of the capture session
    name,           \* the normalised subject name
    max_images,     \* the target count
    count,          \* images saved in this session
    frame,          \* the frame read last
    capFrames,      \* frames read in this session
    capSessions,    \* sessions started
    signals,        \* history: capture signals (SPACE) received in this session
    written,        \* history: indices written in this session
    captured,       \* history: the frames saved in this session, in order
    folderAtStart,  \* history: the subject's folder when the session started
    capExitBy,      \* history: what ended the capture loop ("none" while it runs)
    \* train_encodings
    tpc,            \* position of the training run
    imagePaths,     \* the image files listed at the start of the run
    scanned,        \* images of imagePaths processed so far
    faces,          \* the samples: for each, the image it was cropped from
    labels,         \* the label of each sample
    name_to_id,     \* name -> label
    new_id_to_name, \* train_encodings' id_to_name: the name of label k-1 at index k
    current_id,     \* the next label to assign
    trainRuns,      \* runs started
    lastScan,       \* history: the image scanned last and what was found in it
    encAtStart,     \* history: ENCODINGS_DIR when the run started
    persistedAtStart, \* history: operation -> the files on disk when it last started
    \* gui.py
    btn,            \* button of an operation: "normal" or "disabled"
    worker,         \* operation -> the number of its worker threads that are alive
    ticket,         \* operation -> the calls of it that had been made when it was clicked
    afterQueue,     \* callbacks posted with app.after(0, ...), in order
    notices         \* history: the message boxes shown

recVars == <<rpc, face_recognizer, id_to_name, attendance, pending, recFrames, recSessions,
             last, repeats, seenAt, flushLog, recorded, exitBy, loaded>>
capVars == <<cpc, name, max_images, count, frame, capFrames, capSessions,
             signals, written, captured, folderAtStart, capExitBy>>
trainVars == <<tpc, imagePaths, scanned, faces, labels, name_to_id, new_id_to_name,
               current_id, trainRuns, lastScan, encAtStart>>
guiVars == <<btn, worker, ticket, afterQueue, notices>>
vars == <<now, attFiles, encodings, dataset, camHolders, recVars, capVars, trainVars,
          persistedAtStart, guiVars>>

----------------------------------------------------------------------------
(* Bounds *)

TicksPerSec == 2
SecsPerDay == 2
NumDays == 2
MaxFrames == 2
MaxFaces == 2
MaxSessions == 2
MaxSubjects == 2
MaxCapFrames == 3
MaxCapSessions == 2
MaxTarget == 2
MaxTrainRuns == 2
PipeMaxFrames == 1
PipeMaxFaces == 1
GuiMaxClicks == 1
GuiMaxFrames == 1
GuiMaxFaces == 1

TicksPerDay == TicksPerSec * SecsPerDay
MaxTick == TicksPerDay * NumDays - 1
Days == 0 .. (NumDays - 1)

\* An absent value is the empty sequence, a present one a sequence of one element.
None == <<>>
Some(x) == <<x>>

Min(a, b) == IF a < b THEN a ELSE b
Range(s) == {s[i] : i \in DOMAIN s}
Occurrences(s, x) == Cardinality({i \in DOMAIN s : s[i] = x})
IsPrefix(s, t) == Len(s) <= Len(t) /\ SubSeq(t, 1, Len(s)) = s

----------------------------------------------------------------------------
(* Names *)

Unknown == <<"Unknown">>

\* The names typed at registration: words and blanks, not blank altogether.
RawNames == {<<"A">>, <<" ", "A", " ">>, <<"A", " ", "B">>}

RECURSIVE LStrip(_)
LStrip(s) == IF s # <<>> /\ Head(s) = " " THEN LStrip(Tail(s)) ELSE s

RECURSIVE RStrip(_)
RStrip(s) == IF s # <<>> /\ s[Len(s)] = " " THEN RStrip(SubSeq(s, 1, Len(s) - 1)) ELSE s

\* name.strip().replace(' ', '_')
Normalize(s) ==
    LET t == RStrip(LStrip(s))
    IN [i \in 1 .. Len(t) |-> IF t[i] = " " THEN "_" ELSE t[i]]

Folders == {Normalize(r) : r \in RawNames}

\* The subject names a trained mapping can hold: the dataset's folder names.
SubjectNames == {<<"A">>, <<"B">>, Unknown}

----------------------------------------------------------------------------
(* The clock: utils.todays_date and strftime('%H:%M:%S') *)

todays_date(t) == t \div TicksPerDay

TimeOfDay(t) == (t \div TicksPerSec) % SecsPerDay

----------------------------------------------------------------------------
(* attendance.py: the decision rule *)

Threshold == 70

\* The confidences the classifier reports, around the threshold.
Confidences == {Threshold - 1, Threshold, Threshold + 1}

AcceptedOrEqual(confidence) == confidence <= Threshold

Accepted(confidence) == confidence < Threshold

LookupOrFirstSubject(map, label) ==
    IF label \in DOMAIN map THEN map[label] ELSE <<"A">>

\* id_to_name.get(label, 'Unknown')
Lookup(map, label) == IF label \in DOMAIN map THEN map[label] ELSE Unknown

ClassifyNoDedup(att, map, label, confidence) ==
    IF Accepted(confidence) /\ Lookup(map, label) # Unknown
    THEN Append(att, Lookup(map, label))
    ELSE att

\* The session list after one detected face (label, confidence).
Classify(att, map, label, confidence) ==
    IF Accepted(confidence)
    THEN LET nm == Lookup(map, label)
         IN IF nm # Unknown /\ nm \notin Range(att) THEN Append(att, nm) ELSE att
    ELSE att

----------------------------------------------------------------------------
(* attendance.py: mark_attendance *)

Header == [kind |-> "header"]
Row(nm, t) == [kind |-> "row", name |-> nm, time |-> t]

Rows(names, stamp) == [i \in 1 .. Len(names) |-> Row(names[i], stamp)]

AbsentFile == [exists |-> FALSE, lines |-> <<>>]

mark_attendance_dedup(files, names, tDate, tStamp) ==
    LET today == todays_date(tDate)
        base == IF ~files[today].exists THEN <<Header>> ELSE files[today].lines
        fresh == SelectSeq(names, LAMBDA nm :
                     \A i \in DOMAIN base : base[i].kind = "row" => base[i].name # nm)
    IN [files EXCEPT ![today] =
            [exists |-> TRUE, lines |-> base \o Rows(fresh, TimeOfDay(tStamp))]]

mark_attendance_header(files, names, tDate, tStamp) ==
    LET today == todays_date(tDate)
    IN [files EXCEPT ![today] =
            [exists |-> TRUE,
             lines |-> files[today].lines \o <<Header>> \o Rows(names, TimeOfDay(tStamp))]]

mark_attendance_truncate(files, names, tDate, tStamp) ==
    LET today == todays_date(tDate)
    IN [files EXCEPT ![today] =
            [exists |-> TRUE, lines |-> <<Header>> \o Rows(names, TimeOfDay(tStamp))]]

mark_attendance_early(files, names, tDate, tStamp) ==
    LET today == todays_date(tDate)
        base == IF ~files[today].exists THEN <<Header>> ELSE files[today].lines
    IN [files EXCEPT ![today] =
            [exists |-> TRUE, lines |-> base \o Rows(names, TimeOfDay(tDate))]]

mark_attendance_every_day(files, names, tDate, tStamp) ==
    [d \in Days |->
        [exists |-> TRUE,
         lines |-> (IF ~files[d].exists THEN <<Header>> ELSE files[d].lines)
                   \o Rows(names, TimeOfDay(tStamp))]]

\* ATTENDANCE_DIR after mark_attendance(names), whose todays_date() reads the
\* clock at tDate and whose datetime.now() reads it at tStamp.
mark_attendance(files, names, tDate, tStamp) ==
    LET today == todays_date(tDate)
        base == IF ~files[today].exists THEN <<Header>> ELSE files[today].lines
    IN [files EXCEPT ![today] =
            [exists |-> TRUE, lines |-> base \o Rows(names, TimeOfDay(tStamp))]]

SaveAlways(files, att, tDate, tStamp) == mark_attendance(files, att, tDate, tStamp)

\* The end of recognize_and_mark: "if attendance: mark_attendance(attendance)".
SaveAttendance(files, att, tDate, tStamp) ==
    IF att # <<>> THEN mark_attendance(files, att, tDate, tStamp) ELSE files

----------------------------------------------------------------------------
(* train.py: what a training run persists *)

\* id_to_name of a training run: the k-th distinct folder name gets label k-1.
Injective(s) == \A i, j \in DOMAIN s : i # j => s[i] # s[j]
SeqsUpTo(S, n) == UNION {[1 .. k -> S] : k \in 1 .. n}
TrainedMaps == {s \in SeqsUpTo(SubjectNames, MaxSubjects) : Injective(s)}

\* face_model.yml: the run that wrote it and the labels it was fitted on.
ModelFile(run, fitted) == [run |-> run, labels |-> fitted]

\* name_map.pickle: the run that wrote it and its id_to_name.
MapFile(run, names) == [run |-> run, names |-> names]

NoArtifacts == [model |-> None, name_map |-> None]

\* The label sets a classifier can have been fitted on; the largest label is a
\* key of no mapping of TrainedMaps.
FittedLabels == (SUBSET (0 .. MaxSubjects)) \ {{}}

\* The artifacts training runs can leave on disk: none; the classifier alone
\* (the first run has written it and not yet the mapping); both of one run
\* (every fitted label is a key of the mapping); or the classifier of a later
\* run beside the mapping of an earlier one.
Artifacts ==
    {NoArtifacts}
    \cup {[model |-> Some(ModelFile(1, S)), name_map |-> None] : S \in FittedLabels}
    \cup {[model |-> Some(ModelFile(IF S \subseteq 0 .. (Len(m) - 1) THEN 1 ELSE 2, S)),
           name_map |-> Some(MapFile(1, m))] :
              S \in FittedLabels, m \in TrainedMaps}

\* pickle.load(f)['id_to_name']: labels start at 0.
LoadMap(m) == [l \in 0 .. (Len(m) - 1) |-> m[l + 1]]

----------------------------------------------------------------------------
(* attendance.py: recognize_and_mark *)

\* The three operations of main.py's menu and of the GUI's buttons.
Ops == {"register", "train", "recognize"}

NoFlushes == [nm \in SubjectNames |-> 0]

\* The files on disk: the dataset, the two model artifacts, the attendance files.
Persisted == [dataset |-> dataset, encodings |-> encodings, attFiles |-> attFiles]

RecBegin(sessionNo) ==
    /\ rpc \in {"idle", "stopped", "aborted", "raised"}
    /\ sessionNo < MaxSessions
    /\ recSessions' = sessionNo + 1
    /\ attendance' = <<>>
    /\ pending' = 0
    /\ recFrames' = 0
    /\ last' = None
    /\ repeats' = {}
    /\ seenAt' = <<>>
    /\ flushLog' = None
    /\ exitBy' = "none"
    /\ persistedAtStart' = [persistedAtStart EXCEPT !["recognize"] = Persisted]

RecMissingModelNoReturn ==
    /\ RecBegin(recSessions)
    /\ encodings.model = None \/ encodings.name_map = None
    /\ camHolders' = camHolders \cup {"recognize"}
    /\ rpc' = "read"
    /\ UNCHANGED <<face_recognizer, id_to_name, loaded, recorded>>
    /\ UNCHANGED <<now, attFiles, encodings, dataset, capVars, trainVars>>
    /\ UNCHANGED guiVars

\* Lines 80-86: an artifact is missing; the operation returns.
RecMissingModel ==
    /\ RecBegin(recSessions)
    /\ encodings.model = None \/ encodings.name_map = None
    /\ rpc' = "aborted"
    /\ UNCHANGED <<face_recognizer, id_to_name, loaded, recorded>>
    /\ UNCHANGED <<now, attFiles, encodings, dataset, camHolders, capVars, trainVars>>
    /\ UNCHANGED guiVars

\* Lines 80-113: load both artifacts, open the camera, start with an empty list.
RecStart ==
    /\ RecBegin(recSessions)
    /\ encodings.model # None /\ encodings.name_map # None
    /\ face_recognizer' = encodings.model[1].labels
    /\ id_to_name' = LoadMap(encodings.name_map[1].names)
    /\ loaded' = Some([model |-> encodings.model[1].run,
                       name_map |-> encodings.name_map[1].run])
    /\ camHolders' = camHolders \cup {"recognize"}
    /\ rpc' = "read"
    /\ UNCHANGED recorded
    /\ UNCHANGED <<now, attFiles, encodings, dataset, capVars, trainVars>>
    /\ UNCHANGED guiVars

\* Lines 120-131: read a frame; on failure leave the loop, else detect faces.
RecReadFrame ==
    /\ rpc = "read"
    /\ \/ /\ rpc' = "release"
          /\ exitBy' = "read_failed"
          /\ UNCHANGED <<pending, recFrames>>
       \/ /\ recFrames < MaxFrames
          /\ \E n \in 0 .. MaxFaces : pending' = n
          /\ recFrames' = recFrames + 1
          /\ rpc' = "faces"
          /\ UNCHANGED exitBy
    /\ UNCHANGED <<face_recognizer, id_to_name, loaded, attendance, recSessions, last, repeats,
                   seenAt, flushLog, recorded>>
    /\ UNCHANGED <<now, attFiles, encodings, dataset, camHolders, capVars, trainVars>>
    /\ UNCHANGED <<persistedAtStart, guiVars>>

\* Lines 136-196: one pass of the loop over the detected faces.
RecClassifyFace ==
    /\ rpc = "faces"
    /\ pending > 0
    /\ \E label \in face_recognizer, confidence \in Confidences :
          LET att == Classify(attendance, id_to_name, label, confidence)
              nm == Lookup(id_to_name, label)
          IN /\ attendance' = att
             /\ last' = Some([label |-> label, confidence |-> confidence,
                              before |-> attendance])
             /\ repeats' = IF Accepted(confidence) /\ nm \in Range(attendance)
                           THEN repeats \cup {nm} ELSE repeats
             /\ seenAt' = IF Len(att) > Len(seenAt) THEN Append(seenAt, now) ELSE seenAt
    /\ pending' = pending - 1
    /\ UNCHANGED <<rpc, face_recognizer, id_to_name, loaded, recFrames, recSessions, flushLog,
                   recorded, exitBy>>
    /\ UNCHANGED <<now, attFiles, encodings, dataset, camHolders, capVars, trainVars>>
    /\ UNCHANGED <<persistedAtStart, guiVars>>

\* Lines 126-202: a cv2 call on the frame (cvtColor, detectMultiScale, predict,
\* putText, imshow) raises cv2.error; recognize_and_mark has no try statement,
\* so the exception leaves the function at once.
RecRaise ==
    /\ rpc = "faces"
    /\ rpc' = "raised"
    /\ exitBy' = "raised"
    /\ UNCHANGED <<face_recognizer, id_to_name, loaded, attendance, pending, recFrames,
                   recSessions, last, repeats, seenAt, flushLog, recorded>>
    /\ UNCHANGED <<now, attFiles, encodings, dataset, camHolders, capVars, trainVars>>
    /\ UNCHANGED <<persistedAtStart, guiVars>>

AfterKeyNoBreak(key) == "read"

\* Lines 205-206: if the key is q, break; otherwise the loop reads on.
AfterKey(key) == IF key = "q" THEN "release" ELSE "read"

\* Lines 199-206: show the frame and poll the keyboard once.
RecShowFrame ==
    /\ rpc = "faces"
    /\ pending = 0
    /\ \E key \in {"q", "none"} :
          /\ rpc' = AfterKey(key)
          /\ exitBy' = IF key = "q" THEN "stop" ELSE "none"
    /\ last' = None
    /\ UNCHANGED <<face_recognizer, id_to_name, loaded, attendance, pending, recFrames,
                   recSessions, repeats, seenAt, flushLog, recorded>>
    /\ UNCHANGED <<now, attFiles, encodings, dataset, camHolders, capVars, trainVars>>
    /\ UNCHANGED <<persistedAtStart, guiVars>>

ReleaseNothing(holders, op) == holders

\* Line 212: cap.release()
Release(holders, op) == holders \ {op}

\* Lines 212-215: release the camera and close the window.
RecRelease ==
    /\ rpc = "release"
    /\ camHolders' = Release(camHolders, "recognize")
    /\ rpc' = "flush"
    /\ UNCHANGED <<face_recognizer, id_to_name, loaded, attendance, pending, recFrames,
                   recSessions, last, repeats, seenAt, flushLog, recorded, exitBy>>
    /\ UNCHANGED <<now, attFiles, encodings, dataset, capVars, trainVars>>
    /\ UNCHANGED <<persistedAtStart, guiVars>>

\* Lines 221-225: save the session list. The clock may advance between the
\* date read (line 33) and the timestamp read (line 54).
RecFinalize ==
    /\ rpc = "flush"
    /\ \E dt \in {0, 1} :
          /\ now + dt <= MaxTick
          /\ dt = 1 => attendance # <<>>
          /\ now' = now + dt
          /\ attFiles' = SaveAttendance(attFiles, attendance, now, now + dt)
          /\ flushLog' = Some([day |-> todays_date(now), stampedAt |-> now + dt,
                               before |-> attFiles])
          /\ recorded' = [recorded EXCEPT ![todays_date(now)] =
                             [nm \in SubjectNames |->
                                 IF nm \in Range(attendance) THEN @[nm] + 1 ELSE @[nm]]]
    /\ rpc' = "stopped"
    /\ UNCHANGED <<face_recognizer, id_to_name, loaded, attendance, pending, recFrames,
                   recSessions, last, repeats, seenAt, exitBy>>
    /\ UNCHANGED <<encodings, dataset, camHolders, capVars, trainVars>>
    /\ UNCHANGED <<persistedAtStart, guiVars>>

\* Time passes.
Tick ==
    /\ now < MaxTick
    /\ now' = now + 1
    /\ UNCHANGED <<attFiles, encodings, dataset, camHolders, recVars, capVars, trainVars>>
    /\ UNCHANGED <<persistedAtStart, guiVars>>

----------------------------------------------------------------------------
(* register.py: register_face *)

Indices == 0 .. (MaxCapFrames - 1)

NoFolder == [exists |-> FALSE, files |-> [i \in Indices |-> None]]

FilesIn(folder) == {i \in Indices : folder.files[i] # None}

MakedirsRaisesIfPresent(folder) == folder.exists

\* os.makedirs(person_dir, exist_ok=True) raises nothing when the folder exists.
MakedirsRaises(folder) == FALSE

makedirs_fresh(ds, nm) == [ds EXCEPT ![nm] = [exists |-> TRUE, files |-> NoFolder.files]]

makedirs(ds, nm) == [ds EXCEPT ![nm].exists = TRUE]

\* cv2.imwrite(os.path.join(person_dir, f'{count}.jpg'), frame)
imwrite(ds, nm, idx, img) == [ds EXCEPT ![nm].files[idx] = Some(img)]

FirstIndexAfterExisting(folder) == Cardinality(FilesIn(folder))

\* Line 55: count = 0, whatever the folder holds.
FirstIndex(folder) == 0

\* Lines 119-121: the target is checked after an image is saved.
ReachedMax(saved, target) == saved >= target

CapBegin(sessionNo) ==
    /\ cpc \in {"idle", "done", "failed"}
    /\ sessionNo < MaxCapSessions
    /\ capSessions' = sessionNo + 1

\* Lines 32-58: normalise the name, make the folder, open the camera.
CapStart ==
    /\ CapBegin(capSessions)
    /\ \E raw \in RawNames, target \in 0 .. MaxTarget :
          LET nm == Normalize(raw)
          IN /\ name' = nm
             /\ max_images' = target
             /\ dataset' = makedirs(dataset, nm)
             /\ count' = FirstIndex(dataset[nm])
             /\ folderAtStart' = dataset[nm]
             /\ cpc' = IF MakedirsRaises(dataset[nm]) THEN "failed" ELSE "read"
    /\ camHolders' = IF cpc' = "failed" THEN camHolders ELSE camHolders \cup {"register"}
    /\ frame' = None
    /\ capFrames' = 0
    /\ signals' = 0
    /\ written' = {}
    /\ captured' = <<>>
    /\ capExitBy' = "none"
    /\ persistedAtStart' = [persistedAtStart EXCEPT !["register"] = Persisted]
    /\ UNCHANGED <<now, attFiles, encodings, recVars, trainVars>>
    /\ UNCHANGED guiVars

\* Lines 65-91: read a frame; on failure leave the loop, else show it.
CapReadFrame ==
    /\ cpc = "read"
    /\ \/ /\ cpc' = "release"
          /\ capExitBy' = "read_failed"
          /\ UNCHANGED <<frame, capFrames>>
       \/ /\ capFrames < MaxCapFrames
          /\ frame' = Some([session |-> capSessions, no |-> capFrames])
          /\ capFrames' = capFrames + 1
          /\ cpc' = "key"
          /\ UNCHANGED capExitBy
    /\ UNCHANGED <<name, max_images, count, capSessions, signals, written, captured,
                   folderAtStart>>
    /\ UNCHANGED <<now, attFiles, encodings, dataset, camHolders, recVars, trainVars>>
    /\ UNCHANGED <<persistedAtStart, guiVars>>

\* Lines 97-121: q leaves the loop; SPACE saves the frame as <count>.jpg and
\* leaves the loop when the target is reached; any other key goes on.
CapKey ==
    /\ cpc = "key"
    /\ \E key \in {"q", "space", "none"} :
          IF key = "space"
          THEN /\ dataset' = imwrite(dataset, name, count, frame[1])
               /\ count' = count + 1
               /\ signals' = signals + 1
               /\ written' = written \cup {count}
               /\ captured' = Append(captured, frame[1])
               /\ cpc' = IF ReachedMax(count + 1, max_images) THEN "release" ELSE "read"
               /\ capExitBy' = IF ReachedMax(count + 1, max_images) THEN "target" ELSE "none"
          ELSE /\ cpc' = IF key = "q" THEN "release" ELSE "read"
               /\ capExitBy' = IF key = "q" THEN "stop" ELSE "none"
               /\ UNCHANGED <<dataset, count, signals, written, captured>>
    /\ UNCHANGED <<name, max_images, frame, capFrames, capSessions, folderAtStart>>
    /\ UNCHANGED <<now, attFiles, encodings, camHolders, recVars, trainVars>>
    /\ UNCHANGED <<persistedAtStart, guiVars>>

\* Lines 73-91: a cv2 call on the frame (putText, imshow) raises cv2.error;
\* register_face has no try statement, so the exception leaves the function.
CapRaise ==
    /\ cpc = "key"
    /\ cpc' = "failed"
    /\ capExitBy' = "raised"
    /\ UNCHANGED <<name, max_images, count, frame, capFrames, capSessions, signals,
                   written, captured, folderAtStart>>
    /\ UNCHANGED <<now, attFiles, encodings, dataset, camHolders, recVars, trainVars>>
    /\ UNCHANGED <<persistedAtStart, guiVars>>

\* Lines 127-133: release the camera.
CapRelease ==
    /\ cpc = "release"
    /\ camHolders' = camHolders \ {"register"}
    /\ cpc' = "done"
    /\ UNCHANGED <<name, max_images, count, frame, capFrames, capSessions, signals,
                   written, captured, folderAtStart, capExitBy>>
    /\ UNCHANGED <<now, attFiles, encodings, dataset, recVars, trainVars>>
    /\ UNCHANGED <<persistedAtStart, guiVars>>

----------------------------------------------------------------------------
(* train.py: train_encodings *)

Path(f, i) == [folder |-> f, idx |-> i]

ImagesIn(ds, f) == {Path(f, i) : i \in {j \in Indices : ds[f].files[j] # None}}

Perms(S) == {s \in [1 .. Cardinality(S) -> S] : Injective(s)}

\* paths.list_images(DATASET_DIR): os.walk lists the dataset folder by folder,
\* the folders and the files of a folder in no particular order.
RECURSIVE ListingsOver(_, _)
ListingsOver(ds, fs) ==
    IF fs = {} THEN {<<>>}
    ELSE UNION {{head \o rest : head \in Perms(ImagesIn(ds, f)),
                                rest \in ListingsOver(ds, fs \ {f})} : f \in fs}

Listings(ds) == ListingsOver(ds, {f \in Folders : ImagesIn(ds, f) # {}})

\* Line 88: the subject name is the image's parent folder.
NameOf(path) == path.folder

Extend(f, x, y) == [z \in (DOMAIN f) \cup {x} |-> IF z = x THEN y ELSE f[z]]

AssignLabelNoIncrement(n2i, i2n, cur, nm) ==
    IF nm \notin DOMAIN n2i
    THEN [name_to_id |-> Extend(n2i, nm, cur), id_to_name |-> Append(i2n, nm),
          current_id |-> cur]
    ELSE [name_to_id |-> n2i, id_to_name |-> i2n, current_id |-> cur]

\* Lines 91-94: a name not seen before gets the next label.
AssignLabel(n2i, i2n, cur, nm) ==
    IF nm \notin DOMAIN n2i
    THEN [name_to_id |-> Extend(n2i, nm, cur), id_to_name |-> Append(i2n, nm),
          current_id |-> cur + 1]
    ELSE [name_to_id |-> n2i, id_to_name |-> i2n, current_id |-> cur]

\* Line 130: faces.append(face_roi), once per detected region.
AddFaces(fs, path, regions) == fs \o [k \in 1 .. regions |-> path]

AddLabelsOncePerImage(ls, label, regions) == Append(ls, label)

\* Line 133: labels.append(name_to_id[name]), once per detected region.
AddLabels(ls, label, regions) == ls \o [k \in 1 .. regions |-> label]

NoSamplesIgnored(fs) == FALSE

\* Line 139: if len(faces) == 0
NoSamples(fs) == Len(fs) = 0

\* Lines 33-79: list the images, start with empty lists and dictionaries.
TrainStart ==
    /\ tpc \in {"idle", "done"}
    /\ trainRuns < MaxTrainRuns
    /\ trainRuns' = trainRuns + 1
    /\ imagePaths' \in Listings(dataset)
    /\ scanned' = 0
    /\ faces' = <<>>
    /\ labels' = <<>>
    /\ name_to_id' = <<>>
    /\ new_id_to_name' = <<>>
    /\ current_id' = 0
    /\ lastScan' = None
    /\ encAtStart' = encodings
    /\ persistedAtStart' = [persistedAtStart EXCEPT !["train"] = Persisted]
    /\ tpc' = "scan"
    /\ UNCHANGED <<now, attFiles, encodings, dataset, camHolders, recVars, capVars>>
    /\ UNCHANGED guiVars

\* Lines 81-133: one pass of the loop over the images: label the name, read
\* the image, and add one sample and one label per detected face region.
TrainScanImage ==
    /\ tpc = "scan"
    /\ scanned < Len(imagePaths)
    /\ LET path == imagePaths[scanned + 1]
           a == AssignLabel(name_to_id, new_id_to_name, current_id, NameOf(path))
       IN /\ name_to_id' = a.name_to_id
          /\ new_id_to_name' = a.id_to_name
          /\ current_id' = a.current_id
          /\ \E decoded \in BOOLEAN, regions \in 0 .. MaxFaces :
                /\ ~decoded => regions = 0
                /\ faces' = AddFaces(faces, path, regions)
                /\ labels' = AddLabels(labels, a.name_to_id[NameOf(path)], regions)
                /\ lastScan' = Some([path |-> path, decoded |-> decoded,
                                     regions |-> regions, samplesBefore |-> Len(faces),
                                     labelsBefore |-> Len(labels)])
    /\ scanned' = scanned + 1
    /\ UNCHANGED <<tpc, imagePaths, trainRuns, encAtStart>>
    /\ UNCHANGED <<now, attFiles, encodings, dataset, camHolders, recVars, capVars>>
    /\ UNCHANGED <<persistedAtStart, guiVars>>

\* Lines 139-148: with no sample the run returns; otherwise the classifier is
\* fitted on the samples and their labels.
TrainFit ==
    /\ tpc = "scan"
    /\ scanned = Len(imagePaths)
    /\ tpc' = IF NoSamples(faces) THEN "done" ELSE "save_model"
    /\ UNCHANGED <<imagePaths, scanned, faces, labels, name_to_id, new_id_to_name,
                   current_id, trainRuns, lastScan, encAtStart>>
    /\ UNCHANGED <<now, attFiles, encodings, dataset, camHolders, recVars, capVars>>
    /\ UNCHANGED <<persistedAtStart, guiVars>>

\* Lines 152-155: face_recognizer.save(model_path)
TrainSaveModel ==
    /\ tpc = "save_model"
    /\ encodings' = [encodings EXCEPT !.model = Some(ModelFile(trainRuns, Range(labels)))]
    /\ tpc' = "save_map"
    /\ UNCHANGED <<imagePaths, scanned, faces, labels, name_to_id, new_id_to_name,
                   current_id, trainRuns, lastScan, encAtStart>>
    /\ UNCHANGED <<now, attFiles, dataset, camHolders, recVars, capVars>>
    /\ UNCHANGED <<persistedAtStart, guiVars>>

\* Lines 158-171: pickle.dump of id_to_name and name_to_id
TrainSaveMap ==
    /\ tpc = "save_map"
    /\ encodings' = [encodings EXCEPT !.name_map = Some(MapFile(trainRuns, new_id_to_name))]
    /\ tpc' = "done"
    /\ UNCHANGED <<imagePaths, scanned, faces, labels, name_to_id, new_id_to_name,
                   current_id, trainRuns, lastScan, encAtStart>>
    /\ UNCHANGED <<now, attFiles, dataset, camHolders, recVars, capVars>>
    /\ UNCHANGED <<persistedAtStart, guiVars>>

----------------------------------------------------------------------------
(* gui.py: run_register, run_train, run_attendance and their worker threads *)

\* How often the operation's function has been called.
Calls(op) ==
    CASE op = "register" -> capSessions
      [] op = "train" -> trainRuns
      [] op = "recognize" -> recSessions

\* The operation's function has returned or raised.
Returned(op) ==
    CASE op = "register" -> cpc \in {"done", "failed"}
      [] op = "train" -> tpc = "done"
      [] op = "recognize" -> rpc \in {"stopped", "aborted", "raised"}

\* The function raised an exception.
Raised(op) ==
    \/ op = "register" /\ cpc = "failed"
    \/ op = "recognize" /\ rpc = "raised"

\* How the function's run ended.
Outcome(op) ==
    CASE op = "register" ->
            IF cpc = "failed" THEN "raised"
            ELSE IF capExitBy = "read_failed" THEN "read_failed" ELSE "completed"
      [] op = "train" ->
            IF NoSamples(faces) THEN "empty_dataset" ELSE "completed"
      [] op = "recognize" ->
            IF rpc = "raised" THEN "raised"
            ELSE IF rpc = "aborted" THEN "missing_artifact"
            ELSE IF exitBy = "read_failed" THEN "read_failed" ELSE "completed"

\* try: ... showinfo / except Exception: showerror
NoticeFor(raised) == IF raised THEN "showerror" ELSE "showinfo"

DisableNothing(b, op) == b

\* btn_register.configure(state="disabled", ...), and the like for the others.
Disable(b, op) == [b EXCEPT ![op] = "disabled"]

\* The click handler: the dialog is confirmed, the operation's own button is
\* disabled and the worker thread is started.
GuiClick(op) ==
    /\ btn[op] = "normal"
    /\ Calls(op) < GuiMaxClicks
    /\ btn' = Disable(btn, op)
    /\ worker' = [worker EXCEPT ![op] = @ + 1]
    /\ ticket' = [ticket EXCEPT ![op] = Calls(op)]
    /\ UNCHANGED <<afterQueue, notices>>
    /\ UNCHANGED <<now, attFiles, encodings, dataset, camHolders, recVars, capVars,
                   trainVars, persistedAtStart>>

\* The worker thread has not yet called the operation's function.
MayCall(op) == worker[op] > 0 /\ Calls(op) = ticket[op]

\* The function is back in the worker thread: the thread posts the notice and,
\* in its finally clause, the re-enabling of its button, and ends. When the
\* function raised, the end of the except clause drops the exception and with
\* it the function's frame, whose cv2.VideoCapture object is then destroyed.
GuiWorkerReturn(op) ==
    /\ worker[op] > 0
    /\ Calls(op) = ticket[op] + 1
    /\ Returned(op)
    /\ afterQueue' = afterQueue \o
          << [kind |-> NoticeFor(Raised(op)), op |-> op, outcome |-> Outcome(op)],
             [kind |-> "enable", op |-> op, outcome |-> Outcome(op)] >>
    /\ worker' = [worker EXCEPT ![op] = @ - 1]
    /\ camHolders' = IF Raised(op) THEN Release(camHolders, op) ELSE camHolders
    /\ UNCHANGED <<btn, ticket, notices>>
    /\ UNCHANGED <<now, attFiles, encodings, dataset, recVars, capVars,
                   trainVars, persistedAtStart>>

\* The message boxes shown once the callback cb has run. The lambda posted in
\* the except clause formats the exception variable e, which Python unbinds
\* when the except clause ends: if the worker got there first (eBound false)
\* the lambda raises NameError and shows nothing.
Show(shown, cb, eBound) ==
    IF cb.kind = "showerror" /\ ~eBound THEN shown ELSE shown \cup {cb}

\* The main loop runs the oldest posted callback. It races with the worker
\* thread that posted it and is leaving its except clause.
GuiRunCallback ==
    /\ afterQueue # <<>>
    /\ LET cb == Head(afterQueue)
       IN IF cb.kind = "enable"
          THEN /\ btn' = [btn EXCEPT ![cb.op] = "normal"]
               /\ UNCHANGED notices
          ELSE /\ \E eBound \in BOOLEAN : notices' = Show(notices, cb, eBound)
               /\ UNCHANGED btn
    /\ afterQueue' = Tail(afterQueue)
    /\ UNCHANGED <<worker, ticket>>
    /\ UNCHANGED <<now, attFiles, encodings, dataset, camHolders, recVars, capVars,
                   trainVars, persistedAtStart>>

----------------------------------------------------------------------------
(* Specifications *)

InitRec ==
    /\ rpc = "idle"
    /\ face_recognizer = {}
    /\ id_to_name = <<>>
    /\ attendance = <<>>
    /\ pending = 0
    /\ recFrames = 0
    /\ recSessions = 0
    /\ last = None
    /\ repeats = {}
    /\ seenAt = <<>>
    /\ flushLog = None
    /\ recorded = [d \in Days |-> NoFlushes]
    /\ exitBy = "none"
    /\ loaded = None

InitCap ==
    /\ cpc = "idle"
    /\ name = <<>>
    /\ max_images = 0
    /\ count = 0
    /\ frame = None
    /\ capFrames = 0
    /\ capSessions = 0
    /\ signals = 0
    /\ written = {}
    /\ captured = <<>>
    /\ folderAtStart = NoFolder
    /\ capExitBy = "none"

InitTrain ==
    /\ tpc = "idle"
    /\ imagePaths = <<>>
    /\ scanned = 0
    /\ faces = <<>>
    /\ labels = <<>>
    /\ name_to_id = <<>>
    /\ new_id_to_name = <<>>
    /\ current_id = 0
    /\ trainRuns = 0
    /\ lastScan = None
    /\ encAtStart = NoArtifacts

\* No button has been clicked; no operation has started.
InitGui ==
    /\ persistedAtStart = [op \in Ops |-> Persisted]
    /\ btn = [op \in Ops |-> "normal"]
    /\ worker = [op \in Ops |-> 0]
    /\ ticket = [op \in Ops |-> 0]
    /\ afterQueue = <<>>
    /\ notices = {}

InitStore ==
    /\ now = 0
    /\ attFiles = [d \in Days |-> AbsentFile]
    /\ dataset = [f \in Folders |-> NoFolder]
    /\ camHolders = {}

\* Recognition sessions, one after another, over the artifacts some training left.
InitRecognize ==
    /\ InitStore /\ InitRec /\ InitCap /\ InitTrain
    /\ encodings \in Artifacts
    /\ InitGui

NextRecognize ==
    \/ RecMissingModel
    \/ RecStart
    \/ RecReadFrame
    \/ RecClassifyFace
    \/ RecShowFrame
    \/ RecRelease
    \/ RecFinalize
    \/ Tick

SpecRecognize == InitRecognize /\ [][NextRecognize]_vars

\* Recognition sessions over the artifacts of one training run of two
\* subjects. recognize_and_mark is sequential code: once the loop is left,
\* the release and the save that follow it are eventually executed.
InitStreaming ==
    /\ InitStore /\ InitRec /\ InitCap /\ InitTrain
    /\ encodings = [model |-> Some(ModelFile(1, {0, 1})),
                    name_map |-> Some(MapFile(1, <<<<"A">>, <<"B">>>>))]
    /\ InitGui

NextStreaming ==
    \/ RecStart
    \/ RecReadFrame
    \/ RecClassifyFace
    \/ RecShowFrame
    \/ RecRaise
    \/ RecRelease
    \/ RecFinalize
    \/ Tick

SpecStreaming ==
    /\ InitStreaming
    /\ [][NextStreaming]_vars
    /\ WF_vars(RecRelease)
    /\ WF_vars(RecFinalize)

\* Capture sessions, one after another, over an initially empty dataset.
InitCapture ==
    /\ InitStore /\ InitRec /\ InitCap /\ InitTrain
    /\ encodings = NoArtifacts
    /\ InitGui

NextCapture ==
    \/ CapStart
    \/ CapReadFrame
    \/ CapKey
    \/ CapRelease

SpecCapture == InitCapture /\ [][NextCapture]_vars

\* Capture sessions and training runs over an initially empty dataset; a
\* training run may go on while a capture session is writing.
InitTraining ==
    /\ InitStore /\ InitRec /\ InitCap /\ InitTrain
    /\ encodings = NoArtifacts
    /\ InitGui

NextTraining ==
    \/ CapStart
    \/ CapReadFrame
    \/ CapKey
    \/ CapRelease
    \/ TrainStart
    \/ TrainScanImage
    \/ TrainFit
    \/ TrainSaveModel
    \/ TrainSaveMap

SpecTraining == InitTraining /\ [][NextTraining]_vars

----------------------------------------------------------------------------
(* Claims on the recognition session and its flush *)

RowsNamed(lines, nm) == {i \in DOMAIN lines : lines[i].kind = "row" /\ lines[i].name = nm}

\* A session has ended with a flush of a non-empty list.
Flushed == rpc = "stopped" /\ flushLog # None /\ attendance # <<>>

FlushDay == flushLog[1].day
FileBefore == flushLog[1].before[FlushDay]
FileAfter == attFiles[FlushDay]
Appended == SubSeq(FileAfter.lines,
                   (IF FileBefore.exists THEN Len(FileBefore.lines) ELSE 1) + 1,
                   Len(FileAfter.lines))

\* C1: however often a session accepts faces of one name, the session list
\* holds the name at most once, and the flush at session end appends exactly
\* one row for it.
C1_OncePerSession ==
    /\ \A nm \in SubjectNames : Occurrences(attendance, nm) <= 1
    /\ Flushed =>
          \A nm \in Range(attendance) :
              Cardinality(RowsNamed(FileAfter.lines, nm))
                  = Cardinality(RowsNamed(FileBefore.lines, nm)) + 1

C1_Witness ==
    /\ Flushed
    /\ repeats # {}
    /\ \E nm \in repeats : RowsNamed(FileAfter.lines, nm) # {}

\* C2: a face whose confidence is 70 or more leaves the session list as it
\* was, whatever its label; the list changes only on a confidence below 70.
C2_AtThresholdUnknown ==
    last # None =>
        /\ last[1].confidence >= 70 => attendance = last[1].before
        /\ attendance # last[1].before => last[1].confidence < 70

C2_Witness ==
    /\ last # None
    /\ last[1].confidence = 70
    /\ last[1].label \in DOMAIN id_to_name
    /\ id_to_name[last[1].label] # Unknown
    /\ id_to_name[last[1].label] \notin Range(attendance)

\* C3: after a face classified with confidence below 70 whose label is a key
\* of the loaded mapping, the mapped name is in the session list.
C3_MappedNameMarked ==
    (last # None /\ last[1].confidence < 70 /\ last[1].label \in DOMAIN id_to_name)
        => id_to_name[last[1].label] \in Range(attendance)

\* C4: a session that ends with an empty list writes nothing: every
\* attendance file is as it was, absent if absent.
C4_EmptySessionWritesNothing ==
    (rpc = "stopped" /\ flushLog # None /\ attendance = <<>>)
        => attFiles = flushLog[1].before

C4_Witness ==
    /\ rpc = "stopped" /\ flushLog # None /\ attendance = <<>>
    /\ recFrames > 0
    /\ \E d \in Days : ~attFiles[d].exists
    /\ \E d \in Days : attFiles[d].exists

\* C5 as first stated: two sessions of one day that both record a name leave
\* two rows with that name and two different timestamps.
C5_TwoDifferentTimestamps ==
    \A d \in Days : \A nm \in SubjectNames :
        /\ Cardinality(RowsNamed(attFiles[d].lines, nm)) = recorded[d][nm]
        /\ \A i, j \in RowsNamed(attFiles[d].lines, nm) :
               i # j => attFiles[d].lines[i].time # attFiles[d].lines[j].time

\* C5, amended: a day's file holds one row with a name for every flush of
\* that day whose list held the name; no flush removes or merges a row. (The
\* timestamps of two such rows are equal when both flushes read the clock in
\* the same second.)
C5_RowPerSession ==
    \A d \in Days : \A nm \in SubjectNames :
        Cardinality(RowsNamed(attFiles[d].lines, nm)) = recorded[d][nm]

C5_Witness ==
    \E d \in Days : \E nm \in SubjectNames :
        /\ recorded[d][nm] = 2
        /\ Cardinality(RowsNamed(attFiles[d].lines, nm)) = 2

\* C6: a file that exists starts with the header, and the header is its
\* first line only; an absent file has no lines.
C6_HeaderOnce ==
    \A d \in Days :
        IF attFiles[d].exists
        THEN /\ Len(attFiles[d].lines) >= 1
             /\ attFiles[d].lines[1] = Header
             /\ \A i \in 2 .. Len(attFiles[d].lines) : attFiles[d].lines[i].kind = "row"
        ELSE attFiles[d].lines = <<>>

C6_Witness ==
    /\ Flushed
    /\ FileBefore.exists
    /\ Len(FileAfter.lines) > Len(FileBefore.lines)

\* C7: a flush keeps what the day's file held as a prefix, adds after it (or
\* after the header of a file it creates) one row per name of the list, in the
\* list's order, and leaves the other days' files alone.
C7_AppendOnly ==
    Flushed =>
        /\ FileBefore.exists => IsPrefix(FileBefore.lines, FileAfter.lines)
        /\ Len(FileAfter.lines)
               = (IF FileBefore.exists THEN Len(FileBefore.lines) ELSE 1) + Len(attendance)
        /\ \A i \in 1 .. Len(attendance) :
               Appended[i].kind = "row" /\ Appended[i].name = attendance[i]
        /\ \A d \in Days \ {FlushDay} : attFiles[d] = flushLog[1].before[d]

C7_Witness ==
    /\ Flushed
    /\ FileBefore.exists
    /\ Len(FileBefore.lines) >= 2
    /\ Len(attendance) = 2

\* C8: the rows of one flush all carry the time of day read at finalization.
C8_FinalizationTime ==
    Flushed =>
        \A i \in 1 .. Len(Appended) :
            Appended[i].time = TimeOfDay(flushLog[1].stampedAt)

C8_Witness ==
    /\ Flushed
    /\ Len(attendance) = 2
    /\ \A i \in 1 .. Len(attendance) :
           TimeOfDay(seenAt[i]) # TimeOfDay(flushLog[1].stampedAt)

----------------------------------------------------------------------------
(* Claims on the capture session *)

Started == cpc \in {"read", "key", "release", "done"}

\* C9: after N capture signals the session has written exactly the files
\* 0 .. min(N, max_images) - 1.
C9_MinOfSignalsAndTarget ==
    Started => written = 0 .. (Min(signals, max_images) - 1)

\* C10: a session numbers its captures from 0 whatever the folder holds: the
\* files 0 .. count-1 hold the frames it saved, in order, the files from
\* count on are as they were, and the session has not failed on the folder.
C10_NumbersFromZero ==
    /\ cpc # "failed"
    /\ Started =>
          /\ written = 0 .. (count - 1)
          /\ dataset[name].exists
          /\ \A i \in Indices :
                IF i < count
                THEN dataset[name].files[i] = Some(captured[i + 1])
                ELSE dataset[name].files[i] = folderAtStart.files[i]

C10_Witness ==
    /\ cpc = "done"
    /\ count >= 1
    /\ folderAtStart.exists
    /\ folderAtStart.files[0] # None
    /\ dataset[name].files[0] # folderAtStart.files[0]
    /\ \E i \in Indices : i >= count /\ dataset[name].files[i] # None

CapIdle == cpc \in {"idle", "done", "failed"}
TrainIdle == tpc \in {"idle", "done"}
RecIdle == rpc \in {"idle", "stopped", "aborted"}

\* The three operations used one at a time, in any order, over initially
\* empty storage: the next one is started when the last one has returned.
InitPipeline ==
    /\ InitStore /\ InitRec /\ InitCap /\ InitTrain
    /\ encodings = NoArtifacts
    /\ InitGui

NextPipeline ==
    \/ TrainIdle /\ RecIdle /\ CapStart
    \/ CapReadFrame /\ capFrames' <= PipeMaxFrames
    \/ CapKey
    \/ CapRelease
    \/ CapIdle /\ RecIdle /\ TrainStart
    \/ TrainScanImage
    \/ TrainFit
    \/ TrainSaveModel
    \/ TrainSaveMap
    \/ CapIdle /\ TrainIdle /\ RecMissingModel
    \/ CapIdle /\ TrainIdle /\ RecStart
    \/ RecReadFrame /\ recFrames' <= PipeMaxFrames /\ pending' <= PipeMaxFaces
    \/ RecClassifyFace
    \/ RecShowFrame
    \/ RecRelease
    \/ RecFinalize

SpecPipeline == InitPipeline /\ [][NextPipeline]_vars

\* What an earlier execution of the program may have left on disk: one image
\* of subject A and the artifacts of a training run over it.
EarlierImage == [session |-> 0, no |-> 0]
EarlierDataset ==
    [f \in Folders |->
        IF f = <<"A">>
        THEN [exists |-> TRUE,
              files |-> [i \in Indices |-> IF i = 0 THEN Some(EarlierImage) ELSE None]]
        ELSE NoFolder]
EarlierArtifacts == [model |-> Some(ModelFile(0, {0})),
                     name_map |-> Some(MapFile(0, <<<<"A">>>>))]

\* The GUI: every operation runs in a worker thread of its own, started by
\* its button; the threads and the main loop interleave. register_face is
\* called without max_images and uses its default. The disk is empty or as an
\* earlier execution left it.
InitGuiApp ==
    /\ now = 0
    /\ attFiles = [d \in Days |-> AbsentFile]
    /\ camHolders = {}
    /\ \/ dataset = [f \in Folders |-> NoFolder] /\ encodings = NoArtifacts
       \/ dataset = EarlierDataset /\ encodings = EarlierArtifacts
    /\ InitRec /\ InitCap /\ InitTrain
    /\ InitGui

NextGui ==
    \/ \E op \in Ops : GuiClick(op)
    \/ MayCall("register") /\ CapStart /\ max_images' = MaxTarget
    \/ CapReadFrame /\ capFrames' <= GuiMaxFrames
    \/ CapKey
    \/ CapRaise
    \/ CapRelease
    \/ MayCall("train") /\ TrainStart
    \/ TrainScanImage
    \/ TrainFit
    \/ TrainSaveModel
    \/ TrainSaveMap
    \/ MayCall("recognize") /\ RecMissingModel
    \/ MayCall("recognize") /\ RecStart
    \/ RecReadFrame /\ recFrames' <= GuiMaxFrames /\ pending' <= GuiMaxFaces
    \/ RecClassifyFace
    \/ RecShowFrame
    \/ RecRaise
    \/ RecRelease
    \/ RecFinalize
    \/ \E op \in Ops : GuiWorkerReturn(op)
    \/ GuiRunCallback

SpecGui == InitGuiApp /\ [][NextGui]_vars

----------------------------------------------------------------------------
(* Claims on the training run, checked under SpecTraining *)

RunEnded == tpc = "done"

\* C12: a training run that ends with no sample has written neither artifact:
\* the classifier file and the name-map file are as they were when it started.
C12_EmptyRunWritesNothing ==
    (RunEnded /\ Len(faces) = 0) =>
        /\ encodings.model = encAtStart.model
        /\ encodings.name_map = encAtStart.name_map

C12_Witness ==
    /\ RunEnded
    /\ Len(faces) = 0
    /\ Len(imagePaths) > 0
    /\ encAtStart.model # None
    /\ encAtStart.name_map # None
    /\ encodings = encAtStart

NamesSeen == {NameOf(imagePaths[k]) : k \in 1 .. scanned}

FirstSeenAt(nm) == CHOOSE k \in 1 .. scanned :
    /\ NameOf(imagePaths[k]) = nm
    /\ \A j \in 1 .. (k - 1) : NameOf(imagePaths[j]) # nm

\* C13: during a run the labels are a bijection between the names seen so far
\* and 0 .. current_id - 1, in order of first encounter, the two dictionaries
\* are inverse of each other, and the name map a run has saved has exactly the
\* subjects of the listed image files as its names.
C13_LabelBijection ==
    /\ DOMAIN name_to_id = NamesSeen
    /\ current_id = Cardinality(NamesSeen)
    /\ Len(new_id_to_name) = current_id
    /\ \A nm \in DOMAIN name_to_id :
          /\ name_to_id[nm] \in 0 .. (current_id - 1)
          /\ new_id_to_name[name_to_id[nm] + 1] = nm
    /\ \A l \in 0 .. (current_id - 1) :
          /\ new_id_to_name[l + 1] \in DOMAIN name_to_id
          /\ name_to_id[new_id_to_name[l + 1]] = l
    /\ \A n1, n2 \in DOMAIN name_to_id :
          name_to_id[n1] < name_to_id[n2] <=> FirstSeenAt(n1) < FirstSeenAt(n2)
    /\ (RunEnded /\ Len(faces) > 0) =>
          /\ encodings.name_map # None
          /\ encodings.name_map[1].run = trainRuns
          /\ Range(encodings.name_map[1].names) = {NameOf(q) : q \in Range(imagePaths)}
          /\ Injective(encodings.name_map[1].names)

C13_Witness ==
    /\ RunEnded
    /\ Len(faces) > 0
    /\ encodings.name_map # None
    /\ encodings.name_map[1].run = trainRuns
    /\ Len(encodings.name_map[1].names) = 2
    /\ NameOf(imagePaths[1]) = <<"A", "_", "B">>

\* C14: an image that cannot be decoded or shows no face adds no sample and
\* the scan goes on; each detected region adds one sample labelled with the
\* label of the image's folder; samples and labels have the same length and
\* every label is a key of the mapping.
C14_SamplePerRegion ==
    /\ Len(faces) = Len(labels)
    /\ \A k \in 1 .. Len(labels) :
          /\ NameOf(faces[k]) \in DOMAIN name_to_id
          /\ labels[k] = name_to_id[NameOf(faces[k])]
          /\ labels[k] \in 0 .. (Len(new_id_to_name) - 1)
    /\ lastScan # None =>
          LET ls == lastScan[1]
              added == IF ls.decoded THEN ls.regions ELSE 0
          IN /\ scanned >= 1
             /\ ls.path = imagePaths[scanned]
             /\ tpc = "scan" \/ scanned = Len(imagePaths)
             /\ Len(faces) = ls.samplesBefore + added
             /\ Len(labels) = ls.labelsBefore + added
             /\ \A k \in (ls.samplesBefore + 1) .. Len(faces) : faces[k] = ls.path

C14_Witness ==
    /\ tpc = "scan"
    /\ lastScan # None
    /\ ~lastScan[1].decoded
    /\ Len(faces) = MaxFaces
    /\ scanned < Len(imagePaths)

----------------------------------------------------------------------------
(* Claims on the recognition session's control flow *)

Streaming == rpc \in {"read", "faces"}
LoopLeft == rpc \in {"release", "flush", "stopped"}
FilesExist == \E d \in Days : attFiles[d].exists

\* C15: with the classifier file or the name-map file absent, a requested
\* recognition ends without opening the camera, without reading a frame and
\* without creating or appending to an attendance file.
C15_MissingArtifactAborts ==
    (encodings.model = None \/ encodings.name_map = None) =>
        /\ rpc \in {"idle", "aborted"}
        /\ "recognize" \notin camHolders
        /\ recFrames = 0
        /\ attendance = <<>>
        /\ ~FilesExist

C15_Witness ==
    /\ rpc = "aborted"
    /\ recSessions = MaxSessions
    /\ encodings.model # None
    /\ encodings.name_map = None

\* C18 as stated: the loop is left only through the stop signal.
C18_OnlyStopLeavesStreaming == LoopLeft => exitBy = "stop"

C18_LoopLeftForGood ==
    (exitBy # "none" /\ recSessions' = recSessions) =>
        /\ recFrames' = recFrames
        /\ exitBy' = exitBy
        /\ LoopLeft' \/ rpc' = "raised"

\* C18: a session leaves the frame loop through the stop signal, through a
\* failed frame read or through an exception raised while a frame is
\* processed, and through nothing else; after any of them no further frame is
\* read and the session does not stream again; after the stop signal or a
\* failed read it reaches Stopped, after an exception it never does.
C18_ExitsOfStreaming ==
    /\ [](/\ Streaming => exitBy = "none"
          /\ LoopLeft => exitBy \in {"stop", "read_failed"}
          /\ rpc = "raised" <=> exitBy = "raised")
    /\ [][C18_LoopLeftForGood]_vars
    /\ (exitBy \in {"stop", "read_failed"}) ~> (rpc = "stopped")

C18_Witness ==
    /\ rpc = "stopped"
    /\ exitBy = "stop"
    /\ recFrames = 1
    /\ recSessions = MaxSessions

C19_FlushStep ==
    /\ attFiles' # attFiles =>
          /\ rpc = "flush" /\ rpc' = "stopped"
          /\ "recognize" \notin camHolders
          /\ flushLog = None /\ flushLog' # None
    /\ (flushLog # None /\ recSessions' = recSessions) =>
          /\ attFiles' = attFiles
          /\ flushLog' = flushLog

\* C19: when the loop is left, by the stop signal or by the end of the video
\* source, the camera is released before anything is written; attendance
\* files change in one step per session at most, after the loop was left and
\* never while the session streams.
C19_ReleaseThenFlushOnce ==
    /\ [](/\ Streaming => flushLog = None /\ "recognize" \in camHolders
          /\ rpc \in {"flush", "stopped"} => "recognize" \notin camHolders
          /\ flushLog # None => rpc = "stopped")
    /\ [][C19_FlushStep]_vars

C19_Witness ==
    /\ rpc = "stopped"
    /\ exitBy = "read_failed"
    /\ flushLog # None
    /\ attFiles # flushLog[1].before
    /\ recSessions = MaxSessions

----------------------------------------------------------------------------
(* Claims on the GUI, checked under SpecGui *)

\* C16: a run that ended on a missing artifact, on an empty dataset or on a
\* failed frame read is shown by the GUI as an error and never as a success.
C16_ErrorsShownAsErrors ==
    \A n \in notices : n.outcome # "completed" => n.kind = "showerror"

\* C20: at no time do two operations started from the GUI hold the camera.
C20_OneCameraHolder == Cardinality(camHolders) <= 1

----------------------------------------------------------------------------
(* Claims on the operations used one after another, checked under SpecPipeline *)

SampleFiles == {Path(f, i) : f \in Folders, i \in Indices}
Sample(ds, q) == ds[q.folder].files[q.idx]

C11_NoFileEverChanges ==
    \A q \in SampleFiles :
        Sample(dataset, q) # None => Sample(dataset', q) = Sample(dataset, q)

\* C11 as stated: once created, a sample file is never changed or deleted.
C11_SamplesImmutable == [][C11_NoFileEverChanges]_vars

C11_OnlyRecaptureOverwrites ==
    /\ (trainVars' # trainVars \/ recVars' # recVars) => dataset' = dataset
    /\ \A q \in SampleFiles :
          Sample(dataset, q) # None =>
              /\ Sample(dataset', q) # None
              /\ Sample(dataset', q) # Sample(dataset, q) =>
                    /\ cpc = "key"
                    /\ q = Path(name, count)
                    /\ folderAtStart.files[q.idx] = Sample(dataset, q)

\* C11: training and recognition never write to the dataset and no operation
\* deletes a sample file; the content of a sample file is replaced only when a
\* later capture session for the same normalised name, numbering its captures
\* from 0, saves a capture at that file's index.
C11_OverwrittenOnlyByRecapture == [][C11_OnlyRecaptureOverwrites]_vars

C11_Witness ==
    /\ cpc = "done"
    /\ capSessions = MaxCapSessions
    /\ trainRuns >= 1
    /\ recSessions >= 1
    /\ folderAtStart.files[0] # None
    /\ dataset[name].files[0] # None
    /\ dataset[name].files[0] # folderAtStart.files[0]

\* The step in which an operation ends on an error condition.
RecMissingEnds == recSessions' # recSessions /\ rpc' = "aborted"
RecReadFailedEnds == rpc = "flush" /\ rpc' = "stopped" /\ exitBy = "read_failed"
TrainEmptyEnds == tpc = "scan" /\ tpc' = "done"
CapReadFailedEnds == cpc = "release" /\ cpc' = "done" /\ capExitBy = "read_failed"

\* The files of a stored state, leaving aside which folders exist.
FilesOf(p) == [dataset |-> [f \in Folders |-> p.dataset[f].files],
               encodings |-> p.encodings, attFiles |-> p.attFiles]

C17_AbortChangesNothing ==
    /\ RecMissingEnds => FilesOf(Persisted)' = FilesOf(persistedAtStart'["recognize"])
    /\ RecReadFailedEnds => FilesOf(Persisted)' = FilesOf(persistedAtStart["recognize"])
    /\ TrainEmptyEnds => FilesOf(Persisted)' = FilesOf(persistedAtStart["train"])
    /\ CapReadFailedEnds => FilesOf(Persisted)' = FilesOf(persistedAtStart["register"])

\* C17 as stated: an operation aborted by a missing artifact, an empty dataset
\* or a failed frame read ends with the files on disk as they were at its start.
C17_AbortedLeavesPersistedUnchanged == [][C17_AbortChangesNothing]_vars

C17_AbortKeepsEarlierWork ==
    /\ RecMissingEnds => Persisted' = persistedAtStart'["recognize"]
    /\ TrainEmptyEnds => Persisted' = persistedAtStart["train"]
    /\ RecReadFailedEnds =>
          LET before == persistedAtStart["recognize"]
          IN /\ dataset' = before.dataset
             /\ encodings' = before.encodings
             /\ attendance = <<>> => attFiles' = before.attFiles
             /\ attendance # <<>> =>
                   attFiles' = mark_attendance(before.attFiles, attendance, now, now')
    /\ CapReadFailedEnds =>
          LET before == persistedAtStart["register"]
          IN /\ encodings' = before.encodings
             /\ attFiles' = before.attFiles
             /\ \A f \in Folders \ {name} : dataset'[f] = before.dataset[f]
             /\ dataset'[name].exists
             /\ \A i \in Indices :
                   dataset'[name].files[i] =
                       IF i < count THEN Some(captured[i + 1])
                       ELSE before.dataset[name].files[i]

\* C17: an operation aborted by a missing artifact or an empty dataset ends
\* with the files on disk as they were at its start. One aborted by a failed
\* frame read undoes nothing it did before the failure: a recognition session
\* still appends the rows of the names it had accepted (no file changes if it
\* had accepted none), and a capture session leaves the subject's folder
\* created and keeps the images it had saved (no file changes if it had saved
\* none); everything else on disk is as at the start.
C17_AbortedKeepsWorkDoneBefore == [][C17_AbortKeepsEarlierWork]_vars

C17_Witness ==
    /\ rpc = "stopped"
    /\ exitBy = "read_failed"
    /\ attendance # <<>>
    /\ attFiles # persistedAtStart["recognize"].attFiles
    /\ cpc = "done"
    /\ capExitBy = "read_failed"
    /\ count >= 1
    /\ tpc = "done"
    /\ trainRuns = MaxTrainRuns
    /\ Len(faces) = 0

C21_WritesOfAStep ==
    /\ capVars' # capVars =>
          /\ encodings' = encodings
          /\ attFiles' = attFiles
          /\ \A f \in Folders \ {name'} : dataset'[f] = dataset[f]
    /\ trainVars' # trainVars =>
          /\ dataset' = dataset
          /\ attFiles' = attFiles
    /\ recVars' # recVars =>
          /\ dataset' = dataset
          /\ encodings' = encodings
          /\ \A d \in Days \ {todays_date(now)} : attFiles'[d] = attFiles[d]
    /\ dataset' # dataset => capVars' # capVars
    /\ encodings' # encodings => trainVars' # trainVars
    /\ attFiles' # attFiles => recVars' # recVars

\* C21: a step of a capture session changes nothing on disk but the subject's
\* dataset folder, a step of a training run nothing but the two model
\* artifacts, a step of a recognition session nothing but the attendance file
\* of the day it reads from the clock.
C21_OneWayDataFlow == [][C21_WritesOfAStep]_vars

C21_Witness ==
    /\ rpc = "stopped"
    /\ attFiles[todays_date(now)].exists
    /\ encodings.model # None
    /\ encodings.name_map # None
    /\ encodings.model[1].run = MaxTrainRuns
    /\ capSessions = MaxCapSessions
    /\ \A f \in Folders : dataset[f].files[0] # None

----------------------------------------------------------------------------
(* Claims on worker threads, exceptions and the artifacts loaded, checked
   under SpecGui *)

\* C22: at most one worker thread per operation is alive, and while one is
\* alive the operation's button is disabled, so a button that can be clicked
\* has no worker.
C22_OneWorkerPerOperation ==
    \A op \in Ops :
        /\ worker[op] <= 1
        /\ worker[op] = 1 => btn[op] = "disabled"

C22_Witness ==
    \A op \in Ops :
        /\ worker[op] = 1
        /\ Calls(op) = 1
        /\ ~Returned(op)
        /\ btn[op] = "disabled"

\* The worker of op has ended after its function raised, and the main loop
\* has run every callback the worker posted.
RaisedAndSettled(op) ==
    /\ Raised(op)
    /\ worker[op] = 0
    /\ afterQueue = <<>>

\* C23: once the worker of an operation that raised has ended and its
\* callbacks have run, an error notice of that operation has been shown and
\* the operation's button is enabled again.
C23_RaisedShownAndReenabled ==
    \A op \in Ops :
        RaisedAndSettled(op) =>
            /\ btn[op] = "normal"
            /\ \E n \in notices : n.kind = "showerror" /\ n.op = op

\* C25: the classifier and the mapping a recognition session has loaded were
\* written by the same training run.
C25_LoadedFromOneRun ==
    loaded # None => loaded[1].model = loaded[1].name_map

\* C27: a capture or recognition function that has ended, by return or by
\* exception, no longer holds the video source.
C27_ReleasedWhenEnded ==
    \A op \in {"register", "recognize"} : Returned(op) => op \notin camHolders

----------------------------------------------------------------------------
(* Claims on the day of a row and on the names recorded, checked under
   SpecRecognize *)

\* C24: the rows of a flush carry a time of day read on the calendar day
\* whose file they were written to.
C24_RowsInFileOfTheirDay ==
    Flushed => todays_date(flushLog[1].stampedAt) = FlushDay

\* C26: every name of the session list, and every name of a row a flush
\* appended, is a value of the loaded mapping other than 'Unknown'; a face
\* whose label is not a key of the mapping leaves the list as it was, whatever
\* its confidence.
C26_NamesFromLoadedMapping ==
    /\ \A nm \in Range(attendance) : nm \in Range(id_to_name) /\ nm # Unknown
    /\ Flushed =>
          \A i \in DOMAIN Appended :
              Appended[i].kind = "row" => Appended[i].name \in Range(id_to_name) \ {Unknown}
    /\ (last # None /\ last[1].label \notin DOMAIN id_to_name)
          => attendance = last[1].before

C26_Witness ==
    /\ last # None
    /\ last[1].label \notin DOMAIN id_to_name
    /\ last[1].confidence < 70
    /\ attendance # <<>>

====
